---- MODULE Spec2Model ----
(***************************************************************************)
(* A model of python-automata (DFA.py): the DFA record, its simulation     *)
(* methods, state_merge, minimize, pluck_leaves / is_finite,               *)
(* finite_difference_minimize and the boolean language algebra.            *)
(*                                                                         *)
(* Python lists are sequences (order and in-place removal are kept), a     *)
(* transition function is a table state -> symbol -> state, and a method   *)
(* that can raise returns a record [raised, self] holding the object as    *)
(* the raise leaves it.                                                    *)
(***************************************************************************)
EXTENDS Integers, Sequences, FiniteSets, TLC

\* Largest number of states of an automaton drawn by Init.
MaxStates == 3

\* Largest number of states of each operand of the language algebra.
AlgStates == 2

\* Longest input string the language comparisons enumerate.
MaxLen == 4

\* Largest n of the modular_zero(n) automata drawn by Init.
MaxN == 5

\* Largest n of the modular_zero(n) automata drawn as operands by the
\* sessions that go on after a product or an inverse is built.
MaxN2 == 3

\* Largest base of the modular_zero(n, base) automata whose runs are checked.
MaxBase == 3

\* The default base of modular_zero.
base == 2

\* str(i) and int(c) for one digit.
digits == <<"0", "1", "2", "3", "4", "5", "6", "7", "8", "9">>
str(i) == digits[i+1]
int(c) == (CHOOSE i \in 1..Len(digits) : digits[i] = c) - 1

\* The alphabet of the automata: map(str, range(base)), ['0','1'] in demo.py.
alphabet == [i \in 1..base |-> str(i-1)]

\* Python's None (new_start / new_current_state before they are assigned).
None == -1

(***************************************************************************)
(* Python list primitives                                                  *)
(***************************************************************************)

\* set(l): the elements of a list; `x in l` is x \in Range(l).
Range(l) == {l[i] : i \in 1..Len(l)}

\* Index of the first element of l equal to x (0 when absent).
index(l, x) ==
  IF x \in Range(l) THEN CHOOSE i \in 1..Len(l) : l[i] = x /\ \A j \in 1..(i-1) : l[j] # x
  ELSE 0

\* l.remove(x): l without its first element equal to x (x is in l).
remove(l, x) ==
  LET i == index(l, x)
  IN  SubSeq(l, 1, i-1) \o SubSeq(l, i+1, Len(l))

\* [x for x in S] for a set S of small integers: CPython iterates such a
\* set in ascending order.
RECURSIVE list_of_set(_)
list_of_set(S) ==
  IF S = {} THEN <<>>
  ELSE LET m == CHOOSE x \in S : \A y \in S : x <= y
       IN  <<m>> \o list_of_set(S \ {m})

(***************************************************************************)
(* class DFA                                                               *)
(***************************************************************************)

\* DFA.__init__
DFA(states, alphabet_, delta, start, accepts) ==
  [states |-> states, start |-> start, delta |-> delta, accepts |-> accepts,
   alphabet |-> alphabet_, current_state |-> start]

\* self.delta(state, char) is defined (a table lookup raises KeyError otherwise).
has_delta(self, state) == state \in DOMAIN self.delta

\* DFA.validate: TRUE iff no assertion fails.
validate(self) ==
  /\ Range(self.accepts) \subseteq Range(self.states)
  /\ self.start \in Range(self.states)
  /\ self.current_state \in Range(self.states)
  /\ \A state \in Range(self.states) : \A char \in Range(self.alphabet) :
       /\ has_delta(self, state)
       /\ self.delta[state][char] \in Range(self.states)

\* DFA.input
input(self, char) ==
  [self EXCEPT !.current_state = self.delta[self.current_state][char]]

\* DFA.status
status(self) == self.current_state \in Range(self.accepts)

\* DFA.reset
reset(self) == [self EXCEPT !.current_state = self.start]

\* state_merge without the redirection of start (mutant of state_merge).
state_merge_keeps_start(self, q1, q2) ==
  IF q1 \notin Range(self.states)
  THEN [raised |-> TRUE, self |-> self]
  ELSE LET states == remove(self.states, q1)
           accepts == IF q1 \in Range(self.accepts) THEN remove(self.accepts, q1)
                      ELSE self.accepts
           current_state == IF self.current_state = q1 THEN q2 ELSE self.current_state
           transitions ==
             [state \in Range(states) |->
                [char \in Range(self.alphabet) |->
                   LET next == self.delta[state][char]
                   IN  IF next = q1 THEN q2 ELSE next]]
       IN  [raised |-> FALSE,
            self |-> [states |-> states, start |-> self.start, delta |-> transitions,
                      accepts |-> accepts, alphabet |-> self.alphabet,
                      current_state |-> current_state]]

\* DFA.state_merge; raised when list.remove(q1) raises ValueError.
state_merge(self, q1, q2) ==
  IF q1 \notin Range(self.states)
  THEN [raised |-> TRUE, self |-> self]
  ELSE LET states == remove(self.states, q1)
           accepts == IF q1 \in Range(self.accepts) THEN remove(self.accepts, q1)
                      ELSE self.accepts
           current_state == IF self.current_state = q1 THEN q2 ELSE self.current_state
           start == IF self.start = q1 THEN q2 ELSE self.start
           transitions ==
             [state \in Range(states) |->
                [char \in Range(self.alphabet) |->
                   LET next == self.delta[state][char]
                   IN  IF next = q1 THEN q2 ELSE next]]
       IN  [raised |-> FALSE,
            self |-> [states |-> states, start |-> start, delta |-> transitions,
                      accepts |-> accepts, alphabet |-> self.alphabet,
                      current_state |-> current_state]]

\* The `for c in self.alphabet` loop of reachable_from, from its i-th symbol.
RECURSIVE reachable_chars(_, _, _, _, _)
reachable_chars(self, q, i, reached, to_process) ==
  IF i > Len(self.alphabet) THEN [reached |-> reached, to_process |-> to_process]
  ELSE LET next == self.delta[q][self.alphabet[i]]
       IN  IF next \notin Range(reached)
           THEN reachable_chars(self, q, i+1, Append(reached, next), Append(to_process, next))
           ELSE reachable_chars(self, q, i+1, reached, to_process)

\* The `while len(to_process)` loop of reachable_from.
RECURSIVE reachable_loop(_, _, _)
reachable_loop(self, reached, to_process) ==
  IF Len(to_process) = 0 THEN reached
  ELSE LET q == to_process[Len(to_process)]
           r == reachable_chars(self, q, 1, reached, SubSeq(to_process, 1, Len(to_process)-1))
       IN  reachable_loop(self, r.reached, r.to_process)

\* reachable_from that puts q0 in the result whatever `inclusive` is
\* (mutant of reachable_from).
reachable_from_always_inclusive(self, q0, inclusive) ==
  reachable_loop(self, <<q0>>, <<q0>>)

\* DFA.reachable_from
reachable_from(self, q0, inclusive) ==
  reachable_loop(self, IF inclusive THEN <<q0>> ELSE <<>>, <<q0>>)

\* DFA.reachable
reachable(self) == reachable_from(self, self.start, TRUE)

\* The `for state in cl` loop of minimize for one symbol: acc.next_class is
\* the class the first state of cl goes to (acc.found = FALSE stands for
\* next_class == None), acc.new_class the states of cl that leave it.
RECURSIVE split_states(_, _, _, _, _, _)
split_states(self, classes, cl, alpha, i, acc) ==
  IF i > Len(cl) THEN acc.new_class
  ELSE LET next == self.delta[cl[i]][alpha]
           holders == {j \in 1..Len(classes) : next \in Range(classes[j])}
       IN  IF ~acc.found
           THEN IF holders = {}
                THEN split_states(self, classes, cl, alpha, i+1, acc)
                ELSE split_states(self, classes, cl, alpha, i+1,
                       [found |-> TRUE,
                        next_class |-> classes[CHOOSE j \in holders : \A k \in holders : k <= j],
                        new_class |-> acc.new_class])
           ELSE IF next \notin Range(acc.next_class)
                THEN split_states(self, classes, cl, alpha, i+1,
                       [acc EXCEPT !.new_class = Append(@, cl[i])])
                ELSE split_states(self, classes, cl, alpha, i+1, acc)

\* The `for alpha in self.alphabet` loop of minimize from its a-th symbol:
\* new_class of the first symbol that splits cl (the loop breaks there),
\* <<>> when no symbol does.
RECURSIVE split_class(_, _, _, _)
split_class(self, classes, cl, a) ==
  IF a > Len(self.alphabet) THEN <<>>
  ELSE LET new_class == split_states(self, classes, cl, self.alphabet[a], 1,
                          [found |-> FALSE, next_class |-> <<>>, new_class |-> <<>>])
       IN  IF new_class # <<>> THEN new_class
           ELSE split_class(self, classes, cl, a+1)

\* One pass of `for cl in classes`, from list position i.  The list is
\* changed while it is iterated: after cl is removed and its two halves are
\* appended, the iterator moves on to position i+1 of the changed list.
RECURSIVE refine_pass(_, _, _, _)
refine_pass(self, classes, i, changed) ==
  IF i > Len(classes) THEN [classes |-> classes, changed |-> changed]
  ELSE LET cl == classes[i]
           new_class == split_class(self, classes, cl, 1)
           old_class == SelectSeq(cl, LAMBDA c : c \notin Range(new_class))
       IN  IF new_class = <<>>
           THEN refine_pass(self, classes, i+1, changed)
           ELSE refine_pass(self,
                  Append(Append(remove(classes, cl), old_class), new_class), i+1, TRUE)

\* The `while changed` loop of minimize.
RECURSIVE refine(_, _)
refine(self, classes) ==
  LET r == refine_pass(self, classes, 1, FALSE)
  IN  IF r.changed THEN refine(self, r.classes) ELSE r.classes

\* Step 1 of minimize without the deletion (mutant of minimize_step1).
minimize_step1_keeps_unreachable(self) == self

\* Step 1 of minimize: the unreachable states are deleted.
minimize_step1(self) ==
  LET reach == reachable(self)
  IN  [self EXCEPT !.states = reach,
                   !.accepts = SelectSeq(self.accepts, LAMBDA q : q \in Range(reach))]

\* old_class that keeps every member of cl (mutant of old_class).
old_class_keeps_all(cl, new_class) == cl

\* old_class of minimize: the members of cl that are not in new_class.
old_class(cl, new_class) == SelectSeq(cl, LAMBDA c : c \notin Range(new_class))

\* Step 2 of minimize without the refinement loop (mutant of minimize_classes).
minimize_classes_unrefined(s1) ==
  <<s1.accepts, list_of_set(Range(s1.states) \ Range(s1.accepts))>>

\* Step 2 of minimize: the equivalence classes of the pruned automaton s1.
minimize_classes(s1) ==
  refine(s1, <<s1.accepts, list_of_set(Range(s1.states) \ Range(s1.accepts))>>)

\* Step 3 of minimize: the new automaton of the classes (none of them empty).
minimize_construct(s1, classes) ==
  LET new_states == [i \in 1..Len(classes) |-> classes[i][1]]
      members == UNION {Range(classes[i]) : i \in 1..Len(classes)}
      state_map == [state \in members |->
                      LET holders == {j \in 1..Len(classes) : state \in Range(classes[j])}
                      IN  classes[CHOOSE j \in holders : \A k \in holders : k <= j][1]]
      new_start == IF s1.start \in members THEN state_map[s1.start] ELSE None
      new_current_state == IF s1.current_state \in members
                           THEN state_map[s1.current_state] ELSE None
      new_accepts == SelectSeq(s1.accepts, LAMBDA acc : acc \in Range(new_states))
      transitions == [state \in Range(new_states) |->
                        [alpha \in Range(s1.alphabet) |-> state_map[s1.delta[state][alpha]]]]
  IN  [states |-> new_states, start |-> new_start, delta |-> transitions,
       accepts |-> new_accepts, alphabet |-> s1.alphabet,
       current_state |-> new_current_state]

\* self.reachable() looks up a state the transition table does not hold
\* (KeyError): S is the set of states reached so far.
RECURSIVE lookup_fails(_, _)
lookup_fails(self, S) ==
  IF \E q \in S : ~has_delta(self, q) THEN TRUE
  ELSE LET T == S \cup {self.delta[q][c] : q \in S, c \in Range(self.alphabet)}
       IN  IF T = S THEN FALSE ELSE lookup_fails(self, T)

\* DFA.minimize; raised when self.reachable() raises KeyError, which leaves
\* every field as it was, and when state_class[0] raises IndexError on an
\* empty class, which leaves the fields as Step 1 set them.
minimize(self) ==
  IF lookup_fails(self, {self.start})
  THEN [raised |-> TRUE, self |-> self]
  ELSE LET s1 == minimize_step1(self)
           classes == minimize_classes(s1)
       IN  IF \E i \in 1..Len(classes) : classes[i] = <<>>
           THEN [raised |-> TRUE, self |-> s1]
           ELSE [raised |-> FALSE, self |-> minimize_construct(s1, classes)]

\* The (state, next) pairs in the order in which Step 1 of pluck_leaves
\* visits them: `for state in self.states: for c in self.alphabet`.
edge_list(self) ==
  LET m == Len(self.alphabet)
  IN  [k \in 1..(Len(self.states) * m) |->
         LET state == self.states[((k-1) \div m) + 1]
         IN  <<state, self.delta[state][self.alphabet[((k-1) % m) + 1]]>>]

\* inbound[next] of pluck_leaves.
inbound_of(self) ==
  [next \in Range(self.states) |->
     LET es == SelectSeq(edge_list(self), LAMBDA e : e[2] = next)
     IN  [i \in 1..Len(es) |-> es[i][1]]]

\* outbound[state] of pluck_leaves.
outbound_of(self) ==
  [state \in Range(self.states) |->
     LET es == SelectSeq(edge_list(self), LAMBDA e : e[1] = state)
     IN  [i \in 1..Len(es) |-> es[i][2]]]

\* loops[state] of pluck_leaves.
loops_of(self) ==
  [state \in Range(self.states) |->
     Len(SelectSeq(edge_list(self), LAMBDA e : e[1] = state /\ e[2] = state))]

\* The assignment to can_loop[incoming] when `state` is plucked.
can_loop_update(can_loop, state, incoming) ==
  IF ~can_loop[state] THEN [can_loop EXCEPT ![incoming] = FALSE] ELSE can_loop

\* The test that appends `incoming` to to_pluck.
pluckable(outbound, loops, can_loop, incoming) ==
  /\ Len(outbound[incoming]) = loops[incoming]
  /\ (loops[incoming] = 0 \/ can_loop[incoming])

\* The `for incoming in inbound[state]` loop of pluck_leaves, from position i.
RECURSIVE pluck_incoming(_, _, _, _, _)
pluck_incoming(loops, inb, state, i, st) ==
  IF i > Len(inb) THEN st
  ELSE LET incoming == inb[i]
           can_loop == can_loop_update(st.can_loop, state, incoming)
           outbound == [st.outbound EXCEPT ![incoming] = remove(@, state)]
       IN  pluck_incoming(loops, inb, state, i+1,
             [to_pluck |-> IF pluckable(outbound, loops, can_loop, incoming)
                           THEN Append(st.to_pluck, incoming) ELSE st.to_pluck,
              outbound |-> outbound, can_loop |-> can_loop])

\* The `while len(to_pluck)` loop of pluck_leaves.
RECURSIVE pluck_loop(_, _, _, _)
pluck_loop(loops, inbound, plucked, st) ==
  IF Len(st.to_pluck) = 0 THEN plucked
  ELSE LET state == st.to_pluck[Len(st.to_pluck)]
       IN  pluck_loop(loops, inbound, Append(plucked, state),
             pluck_incoming(loops, inbound[state], state, 1,
               [st EXCEPT !.to_pluck = SubSeq(@, 1, Len(@)-1)]))

\* The states Step 2 of pluck_leaves starts from.
initial_to_pluck(self, outbound, loops) ==
  SelectSeq(self.states,
    LAMBDA state : Len(outbound[state]) = loops[state] /\ state \notin Range(self.accepts))

\* DFA.pluck_leaves
pluck_leaves(self) ==
  LET loops == loops_of(self)
      outbound == outbound_of(self)
  IN  pluck_loop(loops, inbound_of(self), <<>>,
        [to_pluck |-> initial_to_pluck(self, outbound, loops),
         outbound |-> outbound,
         can_loop |-> [state \in Range(self.states) |-> state \notin Range(self.accepts)]])

\* DFA.is_finite
is_finite(self) == self.start \in Range(pluck_leaves(self))

\* accept_method(a1, a2) for bool.__and__, bool.__or__ and bool.__xor__.
accept_method(f, a1, a2) ==
  CASE f = "and" -> a1 /\ a2
    [] f = "or"  -> a1 \/ a2
    [] f = "xor" -> a1 # a2

\* cross_product reading both acceptance values from D1 (mutant of
\* cross_product).
cross_product_accepts_of_D1(D1, D2, f) ==
  LET n2 == Len(D2.states)
      states == [k \in 1..(Len(D1.states) * n2) |->
                   <<D1.states[((k-1) \div n2) + 1], D2.states[((k-1) % n2) + 1]>>]
      delta == [state_pair \in Range(states) |->
                  [char \in Range(D1.alphabet) |->
                     <<D1.delta[state_pair[1]][char], D2.delta[state_pair[2]][char]>>]]
      accepts == SelectSeq(states,
                   LAMBDA p : accept_method(f, p[1] \in Range(D1.accepts),
                                               p[2] \in Range(D1.accepts)))
  IN  DFA(states, D1.alphabet, delta, <<D1.start, D2.start>>, accepts)

\* The closure delta of cross_product as a table over the pairs of `states`:
\* what it returns for D1.delta and D2.delta as they are now.  A pair on
\* which D1.delta or D2.delta raises KeyError has no entry.
product_delta(D1, D2, states) ==
  [state_pair \in {p \in Range(states) : has_delta(D1, p[1]) /\ has_delta(D2, p[2])} |->
     [char \in Range(D1.alphabet) |->
        <<D1.delta[state_pair[1]][char], D2.delta[state_pair[2]][char]>>]]

\* cross_product (its assert on the alphabets is the guard of the callers).
\* The closure reads D1.delta and D2.delta at each call: the table is what
\* it returns at the moment of construction, and the calls that assign to
\* an operand's delta afterwards renew it (OnOperand).
cross_product(D1, D2, f) ==
  LET n2 == Len(D2.states)
      states == [k \in 1..(Len(D1.states) * n2) |->
                   <<D1.states[((k-1) \div n2) + 1], D2.states[((k-1) % n2) + 1]>>]
      delta == product_delta(D1, D2, states)
      accepts == SelectSeq(states,
                   LAMBDA p : accept_method(f, p[1] \in Range(D1.accepts),
                                               p[2] \in Range(D2.accepts)))
  IN  DFA(states, D1.alphabet, delta, <<D1.start, D2.start>>, accepts)

\* intersection
intersection(D1, D2) == cross_product(D1, D2, "and")

\* union
union(D1, D2) == cross_product(D1, D2, "or")

\* symmetric_difference
symmetric_difference(D1, D2) == cross_product(D1, D2, "xor")

\* inverse keeping the accepting states (mutant of inverse).
inverse_same_accepts(D) ==
  DFA(D.states, D.alphabet, D.delta, D.start, D.accepts)

\* inverse; the new automaton is given the list D.states itself and the
\* function D.delta is bound to at the moment of the call.
inverse(D) ==
  DFA(D.states, D.alphabet, D.delta, D.start,
      SelectSeq(D.states, LAMBDA state : state \notin Range(D.accepts)))

\* DFA.states_finitely_different
states_finitely_different(self, q1, q2) ==
  LET d1 == DFA(self.states, self.alphabet, self.delta, q1, self.accepts)
      d2 == DFA(self.states, self.alphabet, self.delta, q2, self.accepts)
  IN  is_finite(symmetric_difference(d1, d2))

\* find_fin_inf_parts calling reachable_from with its default inclusive=True
\* (mutant of find_fin_inf_parts).
find_fin_inf_parts_inclusive(self) ==
  LET reach == [state \in Range(self.states) |-> Range(reachable_from(self, state, TRUE))]
  IN  [finite_part |-> SelectSeq(self.states, LAMBDA x : x \notin reach[x]),
       infinite_part |-> SelectSeq(self.states, LAMBDA x : x \in reach[x])]

\* DFA.find_fin_inf_parts
find_fin_inf_parts(self) ==
  LET reach == [state \in Range(self.states) |-> Range(reachable_from(self, state, FALSE))]
  IN  [finite_part |-> SelectSeq(self.states, LAMBDA x : x \notin reach[x]),
       infinite_part |-> SelectSeq(self.states, LAMBDA x : x \in reach[x])]

\* Step 3 of finite_difference_minimize: `for state in self.states`, from
\* position i; a state joins the first class whose first member it is
\* similar to.
RECURSIVE group_states(_, _, _, _)
group_states(states, similar_states, i, state_classes) ==
  IF i > Len(states) THEN state_classes
  ELSE LET state == states[i]
           fits == {j \in 1..Len(state_classes) :
                      <<state, state_classes[j][1]>> \in Range(similar_states)}
       IN  IF fits = {}
           THEN group_states(states, similar_states, i+1, Append(state_classes, <<state>>))
           ELSE LET j == CHOOSE x \in fits : \A y \in fits : x <= y
                IN  group_states(states, similar_states, i+1,
                      [state_classes EXCEPT ![j] = Append(@, state)])

\* `for fp_state in ...: self.state_merge(fp_state, rep)`, from position i.
RECURSIVE merge_into(_, _, _, _)
merge_into(self, fp_states, rep, i) ==
  IF i > Len(fp_states) THEN self
  ELSE merge_into(state_merge(self, fp_states[i], rep).self, fp_states, rep, i+1)

\* Step 4 of finite_difference_minimize: `for sc in state_classes`, from
\* position i.
RECURSIVE merge_classes(_, _, _, _)
merge_classes(self, parts, state_classes, i) ==
  IF i > Len(state_classes) THEN self
  ELSE LET sc == state_classes[i]
           fins == SelectSeq(sc, LAMBDA s : s \in Range(parts.finite_part))
           infs == SelectSeq(sc, LAMBDA s : s \in Range(parts.infinite_part))
       IN  IF Len(infs) # 0
           THEN merge_classes(merge_into(self, fins, infs[1], 1), parts, state_classes, i+1)
           ELSE merge_classes(merge_into(self, Tail(fins), fins[1], 1),
                              parts, state_classes, i+1)

\* DFA.finite_difference_minimize; raised when its minimize() raises.
finite_difference_minimize(self) ==
  LET m == minimize(self)
  IN  IF m.raised THEN m
      ELSE LET parts == find_fin_inf_parts(m.self)
               similar_states == pluck_leaves(symmetric_difference(m.self, m.self))
               state_classes == group_states(m.self.states, similar_states, 1, <<>>)
           IN  [raised |-> FALSE,
                self |-> merge_classes(m.self, parts, state_classes, 1)]

\* DFA.input_sequence
RECURSIVE input_sequence(_, _)
input_sequence(self, char_sequence) ==
  IF Len(char_sequence) = 0 THEN self
  ELSE input_sequence(input(self, Head(char_sequence)), Tail(char_sequence))

\* The value DFA.accepts(char_sequence) computes: reset, input_sequence, status.
accepts_string(self, char_sequence) ==
  status(input_sequence(reset(self), char_sequence))

\* A call of DFA.input_sequence: the loop stops at the first symbol on which
\* self.input raises KeyError, with current where the loop left it.
RECURSIVE input_sequence_call(_, _)
input_sequence_call(self, char_sequence) ==
  IF Len(char_sequence) = 0 THEN [raised |-> FALSE, self |-> self]
  ELSE IF ~has_delta(self, self.current_state) THEN [raised |-> TRUE, self |-> self]
  ELSE input_sequence_call(input(self, Head(char_sequence)), Tail(char_sequence))

\* The body of the method DFA.accepts; when input_sequence raises, the
\* assignment that restores current_state is not reached.
accepts_call(self, char_sequence) ==
  LET state_save == self.current_state
      r == input_sequence_call(reset(self), char_sequence)
  IN  IF r.raised THEN [raised |-> TRUE, self |-> r.self, ret |-> None]
      ELSE [raised |-> FALSE, ret |-> status(r.self),
            self |-> [r.self EXCEPT !.current_state = state_save]]

(***************************************************************************)
(* The program state                                                       *)
(***************************************************************************)

VARIABLES
  d,       \* the automaton the methods are called on (d of demo.py)
  pre,     \* the receiver of the last call as it was when the call began
  op,      \* the last call
  args,    \* its arguments
  raised,  \* whether it raised
  ret,     \* its return value
  D2,      \* the second operand of cross_product
  P,       \* the automaton the last constructor returned
  shares,  \* what P shares with d: "delta" (P is a cross product, whose
           \* closure reads d.delta), "states" (P is an inverse and P.states
           \* is the list object d.states) or "nothing"
  loop     \* where a minimize() that runs step by step is in Step 2: pc,
           \* the list classes, the position i of `for cl in classes`,
           \* changed, and the two halves of the last split

vars == <<d, pre, op, args, raised, ret, D2, P, shares, loop>>

\* No minimize() is running step by step.
Idle == [pc |-> "idle", classes |-> <<>>, i |-> 0, changed |-> FALSE, split |-> <<>>]

\* The automata a caller can build with n states 0..n-1 over the alphabet.
DFAs(n) ==
  {DFA([i \in 1..n |-> i-1], alphabet, delta, start, list_of_set(A)) :
     delta \in [0..(n-1) -> [Range(alphabet) -> 0..(n-1)]],
     start \in 0..(n-1),
     A \in SUBSET (0..(n-1))}

\* All automata with at most N states.
DFAsUpTo(N) == UNION {DFAs(n) : n \in 1..N}

\* modular_zero with a transition that leaves the multiplication by the
\* base out (mutant of modular_zero).
modular_zero_adds_digit(n, base_) ==
  DFA([i \in 1..n |-> i-1], [i \in 1..base_ |-> str(i-1)],
      [q \in 0..(n-1) |-> [c \in {str(i) : i \in 0..(base_-1)} |-> (q + int(c)) % n]],
      0, <<0>>)

\* modular_zero(n, base); the lambda is tabulated over range(n), which it
\* never leaves.
modular_zero(n, base_) ==
  DFA([i \in 1..n |-> i-1], [i \in 1..base_ |-> str(i-1)],
      [q \in 0..(n-1) |-> [c \in {str(i) : i \in 0..(base_-1)} |-> (q*base_ + int(c)) % n]],
      0, <<0>>)

\* The modular_zero automata the sessions start from.
ModularDFAs == {modular_zero(n, base) : n \in 1..MaxN}

\* An identifier the automaton does not hold.
fresh(self) ==
  IF self.states = <<>> THEN 0
  ELSE 1 + CHOOSE m \in Range(self.states) : \A q \in Range(self.states) : q <= m

\* No automaton constructed yet.
NoDFA == DFA(<<>>, alphabet, <<>>, None, <<>>)

\* The state after d, and for the algebra D2, are constructed.
Constructed(S, S2) ==
  /\ d \in S
  /\ pre = d
  /\ op = "init"
  /\ args = <<>>
  /\ raised = FALSE
  /\ ret = None
  /\ D2 \in S2
  /\ P = NoDFA
  /\ shares = "nothing"
  /\ loop = Idle

\* d = modular_zero(n): sessions of calls on the automata of demo.py.
Init == Constructed(ModularDFAs, {NoDFA})

\* d is any automaton with at most MaxStates states.
InitAny == Constructed(DFAsUpTo(MaxStates), {NoDFA})

\* d and D2 are any automata with at most AlgStates states.
InitAlgebra == Constructed(DFAsUpTo(AlgStates), DFAsUpTo(AlgStates))

\* The sequences of at most MaxLen symbols of an alphabet.
StringsOver(alphabet_) == UNION {[1..n -> Range(alphabet_)] : n \in 0..MaxLen}

\* d.input_sequence(char_sequence).  A sequence is fed after input and reset
\* calls: it is itself a series of input calls.
InputSequence ==
  \E char_sequence \in StringsOver(d.alphabet) :
    /\ op \in {"init", "input", "reset"}
    /\ pre' = d
    /\ op' = "input_sequence"
    /\ args' = <<char_sequence>>
    /\ \E r \in {input_sequence_call(d, char_sequence)} : d' = r.self /\ raised' = r.raised
    /\ UNCHANGED <<ret, D2, P, shares, loop>>

\* A call of accepts.  In d.accepts(char_sequence) the name is looked up on
\* the instance first, where __init__ has stored the list of accepting
\* states under it: calling the list raises TypeError.  The method of the
\* class runs when it is called as DFA.accepts(d, char_sequence).  The
\* question is asked in the current states that input and reset calls leave.
Accepts ==
  \E char_sequence \in StringsOver(d.alphabet), on_instance \in BOOLEAN :
    /\ op \in {"init", "input", "reset"}
    /\ pre' = d
    /\ op' = "accepts"
    /\ args' = <<char_sequence, on_instance>>
    /\ IF on_instance
       THEN d' = d /\ raised' = TRUE /\ ret' = None
       ELSE \E r \in {accepts_call(d, char_sequence)} :
              d' = r.self /\ raised' = r.raised /\ ret' = r.ret
    /\ UNCHANGED <<D2, P, shares, loop>>

\* What a call on d does to P, where `self` is d as the call leaves it and
\* `rebinds` says that the call assigned a new list to d.states: the closure
\* of a cross product reads the delta d has now, and an inverse sees the
\* removals from the list it shares with d until d.states is another list.
OnOperand(self, rebinds) ==
  /\ P' = CASE shares = "delta" -> [P EXCEPT !.delta = product_delta(self, D2, P.states)]
            [] shares = "states" /\ ~rebinds -> [P EXCEPT !.states = self.states]
            [] OTHER -> P
  /\ shares' = IF shares = "states" /\ rebinds THEN "nothing" ELSE shares

\* d.input(char); a table lookup on a state it does not hold raises KeyError.
Input ==
  \E char \in Range(d.alphabet) :
    /\ pre' = d
    /\ op' = "input"
    /\ args' = <<char>>
    /\ IF has_delta(d, d.current_state)
       THEN d' = input(d, char) /\ raised' = FALSE
       ELSE d' = d /\ raised' = TRUE
    /\ UNCHANGED <<ret, D2, P, shares, loop>>

\* d.reset()
Reset ==
  /\ pre' = d
  /\ op' = "reset"
  /\ args' = <<>>
  /\ d' = reset(d)
  /\ raised' = FALSE
  /\ UNCHANGED <<ret, D2, P, shares, loop>>

\* d.state_merge(q1, q2) with q2 a state; q1 is a state (q2 itself too:
\* the code has no test of q1 against q2) or an identifier d does not hold.
StateMerge ==
  \E q1 \in Range(d.states) \cup {fresh(d)}, q2 \in Range(d.states) :
    /\ pre' = d
    /\ op' = "state_merge"
    /\ args' = <<q1, q2>>
    /\ \E r \in {state_merge(d, q1, q2)} :
         d' = r.self /\ raised' = r.raised /\ OnOperand(r.self, FALSE)
    /\ UNCHANGED <<ret, D2, loop>>

\* d.minimize(); Step 1 assigns a new list to d.states unless
\* self.reachable() raised.
Minimize ==
  /\ pre' = d
  /\ op' = "minimize"
  /\ args' = <<>>
  /\ \E r \in {minimize(d)} :
       d' = r.self /\ raised' = r.raised
         /\ OnOperand(r.self, ~lookup_fails(d, {d.start}))
  /\ UNCHANGED <<ret, D2, loop>>

\* d.finite_difference_minimize()
FiniteDifferenceMinimize ==
  /\ pre' = d
  /\ op' = "finite_difference_minimize"
  /\ args' = <<>>
  /\ \E r \in {finite_difference_minimize(d)} :
       d' = r.self /\ raised' = r.raised
         /\ OnOperand(r.self, ~lookup_fails(d, {d.start}))
  /\ UNCHANGED <<ret, D2, loop>>

Next == Input \/ Reset \/ StateMerge \/ Minimize \/ FiniteDifferenceMinimize

Spec == Init /\ [][Next]_vars

\* d = modular_zero(n, b) for the bases up to MaxBase.
InitRun == Constructed({modular_zero(n, b) : n \in 1..MaxN, b \in 2..MaxBase}, {NoDFA})

\* Runs: the automaton reads input and is asked whether it accepts.
NextRun == Input \/ Reset \/ InputSequence \/ Accepts

SpecRun == InitRun /\ [][NextRun]_vars

\* d.minimize() begins: Step 1, then `changed = True`, the list classes, and
\* the first entry into `while changed` and `for cl in classes`.  When
\* self.reachable() raises KeyError the call ends here.
MinimizeBegin ==
  /\ loop.pc = "idle"
  /\ pre' = d
  /\ args' = <<>>
  /\ IF lookup_fails(d, {d.start})
     THEN /\ op' = "minimize" /\ raised' = TRUE
          /\ UNCHANGED <<d, loop>>
     ELSE \E s1 \in {minimize_step1(d)} :
            /\ op' = "minimizing" /\ raised' = FALSE
            /\ d' = s1
            /\ loop' = [pc |-> "for", i |-> 1, changed |-> FALSE, split |-> <<>>,
                        classes |-> <<s1.accepts,
                                      list_of_set(Range(s1.states) \ Range(s1.accepts))>>]
  /\ UNCHANGED <<ret, D2, P, shares>>

\* One turn of `for cl in classes`: cl is the element at the iterator's
\* position; when a symbol splits it, cl is removed from the list and
\* old_class and new_class are appended, and the iterator moves on by one
\* position in the changed list.
RefineClass ==
  /\ loop.pc = "for"
  /\ loop.i <= Len(loop.classes)
  /\ LET cl == loop.classes[loop.i]
         new_class == split_class(d, loop.classes, cl, 1)
     IN  loop' = IF new_class = <<>>
                 THEN [loop EXCEPT !.i = @ + 1, !.split = <<>>]
                 ELSE [loop EXCEPT
                         !.i = @ + 1,
                         !.changed = TRUE,
                         !.split = <<old_class(cl, new_class), new_class>>,
                         !.classes = Append(Append(remove(@, cl), old_class(cl, new_class)),
                                            new_class)]
  /\ UNCHANGED <<d, pre, op, args, raised, ret, D2, P, shares>>

\* `for cl in classes` is exhausted: `while changed` starts another pass or
\* ends.
RefinePassEnd ==
  /\ loop.pc = "for"
  /\ loop.i > Len(loop.classes)
  /\ loop' = IF loop.changed
             THEN [loop EXCEPT !.i = 1, !.changed = FALSE, !.split = <<>>]
             ELSE [loop EXCEPT !.pc = "construct", !.split = <<>>]
  /\ UNCHANGED <<d, pre, op, args, raised, ret, D2, P, shares>>

\* Step 3 of minimize and its return; state_class[0] raises IndexError on an
\* empty class, before any field is assigned.
MinimizeEnd ==
  /\ loop.pc = "construct"
  /\ op' = "minimize"
  /\ IF \E k \in 1..Len(loop.classes) : loop.classes[k] = <<>>
     THEN d' = d /\ raised' = TRUE
     ELSE d' = minimize_construct(d, loop.classes) /\ raised' = FALSE
  /\ loop' = Idle
  /\ UNCHANGED <<pre, args, ret, D2, P, shares>>

\* minimize() run step by step on every small automaton.
NextRefine == MinimizeBegin \/ RefineClass \/ RefinePassEnd \/ MinimizeEnd

SpecRefine == InitAny /\ [][NextRefine]_vars

\* The transformations applied to every small automaton.
NextAny == StateMerge \/ Minimize \/ FiniteDifferenceMinimize

SpecAny == InitAny /\ [][NextAny]_vars

\* d.is_finite().  A query leaves d as it is, so one call on each automaton
\* covers every call.
IsFinite ==
  /\ op = "init"
  /\ pre' = d
  /\ op' = "is_finite"
  /\ args' = <<>>
  /\ ret' = is_finite(d)
  /\ raised' = FALSE
  /\ UNCHANGED <<d, D2, P, shares, loop>>

\* d.states_finitely_different(q1, q2)
StatesFinitelyDifferent ==
  \E q1 \in Range(d.states), q2 \in Range(d.states) :
    /\ op = "init"
    /\ pre' = d
    /\ op' = "states_finitely_different"
    /\ args' = <<q1, q2>>
    /\ ret' = states_finitely_different(d, q1, q2)
    /\ raised' = FALSE
    /\ UNCHANGED <<d, D2, P, shares, loop>>

\* d.reachable_from(q0, inclusive)
ReachableFrom ==
  \E q0 \in Range(d.states), inclusive \in BOOLEAN :
    /\ op = "init"
    /\ pre' = d
    /\ op' = "reachable_from"
    /\ args' = <<q0, inclusive>>
    /\ ret' = reachable_from(d, q0, inclusive)
    /\ raised' = FALSE
    /\ UNCHANGED <<d, D2, P, shares, loop>>

\* d.find_fin_inf_parts()
FindFinInfParts ==
  /\ op = "init"
  /\ pre' = d
  /\ op' = "find_fin_inf_parts"
  /\ args' = <<>>
  /\ ret' = find_fin_inf_parts(d)
  /\ raised' = FALSE
  /\ UNCHANGED <<d, D2, P, shares, loop>>

\* The queries applied to every small automaton.
NextQuery == IsFinite \/ StatesFinitelyDifferent \/ ReachableFrom \/ FindFinInfParts

SpecQuery == InitAny /\ [][NextQuery]_vars

\* P = cross_product(d, D2, f); its assert fails on different alphabets.
\* The sessions build P right after its operands.
CrossProduct ==
  \E f \in {"and", "or", "xor"} :
    /\ op = "init"
    /\ pre' = d
    /\ op' = "cross_product"
    /\ args' = <<f>>
    /\ IF d.alphabet = D2.alphabet
       THEN P' = cross_product(d, D2, f) /\ raised' = FALSE /\ shares' = "delta"
       ELSE P' = P /\ raised' = TRUE /\ shares' = shares
    /\ UNCHANGED <<d, D2, ret, loop>>

\* P = inverse(d)
Inverse ==
  /\ op = "init"
  /\ pre' = d
  /\ op' = "inverse"
  /\ args' = <<>>
  /\ P' = inverse(d)
  /\ raised' = FALSE
  /\ shares' = "states"
  /\ UNCHANGED <<d, D2, ret, loop>>

\* The constructors of the language algebra.
NextAlgebra == CrossProduct \/ Inverse

SpecAlgebra == InitAlgebra /\ [][NextAlgebra]_vars

\* P.state_merge(q1, q2) on an inverse P; list.remove acts on the list
\* object, which is d.states too while the two share it.
StateMergeP ==
  /\ P # NoDFA
  /\ shares # "delta"
  /\ \E q1 \in Range(P.states) \cup {fresh(P)}, q2 \in Range(P.states) :
    /\ pre' = P
    /\ op' = "P.state_merge"
    /\ args' = <<q1, q2>>
    /\ \E r \in {state_merge(P, q1, q2)} :
         /\ P' = r.self
         /\ raised' = r.raised
         /\ d' = IF shares = "states" THEN [d EXCEPT !.states = r.self.states] ELSE d
    /\ UNCHANGED <<ret, D2, shares, loop>>

\* P.minimize() on an inverse P; Step 1 assigns a new list to P.states
\* unless self.reachable() raised.
MinimizeP ==
  /\ P # NoDFA
  /\ shares # "delta"
  /\ pre' = P
  /\ op' = "P.minimize"
  /\ args' = <<>>
  /\ \E r \in {minimize(P)} : P' = r.self /\ raised' = r.raised
  /\ shares' = IF lookup_fails(P, {P.start}) THEN shares ELSE "nothing"
  /\ UNCHANGED <<d, ret, D2, loop>>

\* The automata modular_zero(n) for the operands of the sessions that go
\* on after P is built.
ModularOperands == {modular_zero(n, base) : n \in 1..MaxN2}

\* d = modular_zero(n), D2 = modular_zero(m).
InitShared == Constructed(ModularOperands, ModularOperands)

\* Sessions that build P from d and go on calling methods of d and of P.
NextShared ==
  \/ CrossProduct \/ Inverse
  \/ Input \/ Reset \/ StateMerge \/ Minimize \/ FiniteDifferenceMinimize
  \/ StateMergeP \/ MinimizeP

SpecShared == InitShared /\ [][NextShared]_vars

(***************************************************************************)
(* Languages                                                               *)
(***************************************************************************)

\* The input strings of length at most MaxLen.
Strings == UNION {[1..n -> Range(alphabet)] : n \in 0..MaxLen}

\* D read from state q instead of its start.
From(D, q) == [D EXCEPT !.start = q]

\* The states one symbol away from a state of S.
Succ(delta, S) == {delta[q][c] : q \in S, c \in Range(alphabet)}

\* The states reachable from S by zero or more symbols.
RECURSIVE Closure(_, _)
Closure(delta, S) ==
  LET T == S \cup Succ(delta, S)
  IN  IF T = S THEN S ELSE Closure(delta, T)

\* Infinitely many strings lead from q0 to F: some state reachable from q0
\* lies on a cycle and reaches F.
Infinite(delta, F, q0) ==
  \E r \in Closure(delta, {q0}) :
    /\ r \in Closure(delta, Succ(delta, {r}))
    /\ Closure(delta, {r}) \cap F # {}

\* The language of D is a finite set.
LanguageFinite(D) == ~Infinite(D.delta, Range(D.accepts), D.start)

\* The languages of A from qa and of B from qb differ in finitely many
\* strings: in the paired automaton only finitely many strings lead from
\* (qa, qb) to a pair of which exactly one is accepting.
FinitelyDifferent(A, qa, B, qb) ==
  LET pairs == (DOMAIN A.delta) \X (DOMAIN B.delta)
      delta == [p \in pairs |->
                  [c \in Range(alphabet) |-> <<A.delta[p[1]][c], B.delta[p[2]][c]>>]]
      F == {p \in pairs : (p[1] \in Range(A.accepts)) # (p[2] \in Range(B.accepts))}
  IN  ~Infinite(delta, F, <<qa, qb>>)

\* The state D is in after it reads s from state q.
RECURSIVE StateAfter(_, _, _)
StateAfter(D, q, s) ==
  IF Len(s) = 0 THEN q
  ELSE D.delta[StateAfter(D, q, SubSeq(s, 1, Len(s)-1))][s[Len(s)]]

\* The integer that the digit sequence s denotes in base b.
RECURSIVE IntValue(_, _)
IntValue(s, b) ==
  IF Len(s) = 0 THEN 0
  ELSE IntValue(SubSeq(s, 1, Len(s)-1), b) * b + int(s[Len(s)])

\* D is minimal with all states reachable: it satisfies invariants 1-4,
\* every state is reachable from start and any two states are told apart by
\* a string.
Minimal(D) ==
  /\ validate(D)
  /\ Range(D.states) \subseteq Closure(D.delta, {D.start})
  /\ \A i, j \in 1..Len(D.states) :
       i # j => \E s \in Strings :
                  accepts_string(From(D, D.states[i]), s)
                    # accepts_string(From(D, D.states[j]), s)

\* The last call was `name` and it returned.
Returned(name) == op = name /\ ~raised

\* The call of this step is made on a receiver that satisfies invariants
\* 1-4 and, for state_merge, with q1 # q2 both in its states.
CallInContract ==
  /\ validate(pre')
  /\ op' \in {"state_merge", "P.state_merge"} =>
       (args'[1] # args'[2] /\ {args'[1], args'[2]} \subseteq Range(pre'.states))

(***************************************************************************)
(* Claims                                                                  *)
(***************************************************************************)

\* C1: language preservation under minimize.  When minimize() completes on
\* an automaton that satisfied invariants 1-4, every string of length at
\* most MaxLen is accepted from start after the call iff it was before.
C1_MinimizePreservesLanguage ==
  (Returned("minimize") /\ validate(pre)) =>
    \A s \in Strings : accepts_string(d, s) = accepts_string(pre, s)

\* C1 witness: minimize() returned on a valid automaton and merged two of
\* its reachable states, and the language is not trivial.
C1_Witness ==
  /\ Returned("minimize") /\ validate(pre)
  /\ Len(d.states) < Len(reachable(pre))
  /\ \E s \in Strings : accepts_string(pre, s)
  /\ \E s \in Strings : ~accepts_string(pre, s)

\* C2: minimality of minimize.  After minimize() completes, every state is
\* reachable from start and any two distinct states are told apart by a
\* string that one accepts and the other rejects.
C2_MinimizeIsMinimal ==
  (Returned("minimize") /\ validate(pre)) =>
    /\ Range(d.states) \subseteq Closure(d.delta, {d.start})
    /\ \A i, j \in 1..Len(d.states) :
         i # j => \E s \in Strings :
                    accepts_string(From(d, d.states[i]), s)
                      # accepts_string(From(d, d.states[j]), s)

\* C2 witness: minimize() returned on an automaton with an unreachable
\* state and left two states.
C2_Witness ==
  /\ Returned("minimize") /\ validate(pre)
  /\ Len(reachable(pre)) < Len(pre.states)
  /\ Len(d.states) = 2

\* C3: finite-difference minimization preserves the language up to a finite
\* set.  When finite_difference_minimize() completes on an automaton that
\* satisfied invariants 1-4, the language accepted after the call differs
\* from the language accepted before it in finitely many strings.
C3_FdmFinitelyDifferent ==
  (Returned("finite_difference_minimize") /\ validate(pre)) =>
    FinitelyDifferent(pre, pre.start, d, d.start)

\* C4: finite-difference minimization yields a smallest automaton.  After
\* finite_difference_minimize() completes, no automaton with fewer states
\* has a language finitely different from the one accepted before the call.
C4_FdmSmallest ==
  (Returned("finite_difference_minimize") /\ validate(pre)) =>
    \A E \in DFAsUpTo(Len(d.states) - 1) :
      ~FinitelyDifferent(E, E.start, pre, pre.start)

\* C5: finiteness correctness.  is_finite() returns true iff the language
\* accepted from start is a finite set.
C5_IsFiniteCorrect ==
  op = "is_finite" => (ret <=> LanguageFinite(d))

\* C6: states_finitely_different(q1, q2) returns true iff the languages
\* accepted from q1 and from q2 differ in finitely many strings.
C6_StatesFinitelyDifferentCorrect ==
  op = "states_finitely_different" =>
    (ret <=> FinitelyDifferent(d, args[1], d, args[2]))

\* C7: product correctness.  cross_product(A, B, combine) accepts a string
\* iff combine(A accepts it, B accepts it), for combine AND, OR and XOR and
\* every string of length at most MaxLen.
C7_ProductCorrect ==
  Returned("cross_product") =>
    \A s \in Strings :
      LET a == accepts_string(d, s)
          b == accepts_string(D2, s)
      IN  accepts_string(P, s) <=>
            CASE args[1] = "and" -> a /\ b
              [] args[1] = "or"  -> a \/ b
              [] args[1] = "xor" -> a # b

\* C7 witness: a symmetric difference of two automata with two states each,
\* one of which accepts a string that the other rejects.
C7_Witness ==
  /\ Returned("cross_product") /\ args[1] = "xor"
  /\ Len(P.states) = 4
  /\ \E s \in Strings : accepts_string(d, s) /\ ~accepts_string(D2, s)
  /\ \E s \in Strings : accepts_string(d, s) /\ accepts_string(D2, s)

\* C8: complement correctness.  inverse(A) accepts a string iff A does not,
\* for every string of length at most MaxLen.
C8_InverseCorrect ==
  Returned("inverse") =>
    \A s \in Strings : accepts_string(P, s) <=> ~accepts_string(d, s)

\* C8 witness: the inverse of an automaton that accepts some strings and
\* rejects others.
C8_Witness ==
  /\ Returned("inverse") /\ validate(d)
  /\ \E s \in Strings : accepts_string(d, s)
  /\ \E s \in Strings : ~accepts_string(d, s)

\* C9: validity is kept.  On an automaton that satisfied invariants 1-4,
\* validate() succeeds after a minimize() that completes, after
\* state_merge(q1, q2) with q1 # q2 both in states, and on the result of
\* cross_product of two validated automata.
C9_ValidityKept ==
  /\ (validate(pre) /\ Returned("minimize")) => validate(d)
  /\ (validate(pre) /\ Returned("state_merge") /\ args[1] # args[2]) => validate(d)
  /\ (Returned("cross_product") /\ validate(d) /\ validate(D2)) => validate(P)

\* C10: no partial mutation on failure.  When minimize(), state_merge() or
\* finite_difference_minimize() raises, the states, the accepting states,
\* start, current and the transitions are what they were before the call.
C10_NoPartialMutation ==
  (raised /\ op \in {"minimize", "state_merge", "finite_difference_minimize"}) =>
    /\ Range(d.states) = Range(pre.states)
    /\ Range(d.accepts) = Range(pre.accepts)
    /\ d.start = pre.start
    /\ d.current_state = pre.current_state
    /\ d.delta = pre.delta

\* C11: state_merge(q1, q2) with q1 equal to q2 is rejected and changes
\* nothing: the call raises, and states, accepts, start, current and the
\* transitions are what they were before the call.
C11_SelfMergeRejected ==
  (op = "state_merge" /\ args[1] = args[2] /\ validate(pre)) =>
    /\ raised
    /\ d = pre

\* C12: effect of state_merge.  For q1 # q2 both in states,
\* state_merge(q1, q2) returns, removes exactly the one state q1 from states
\* and from accepts, moves start and current to q2 exactly when they were
\* q1, sends to q2 every transition of a surviving state that went to q1,
\* leaves the other transitions and the alphabet as they were.
C12_StateMergeEffect ==
  (op = "state_merge" /\ args[1] # args[2]
     /\ {args[1], args[2]} \subseteq Range(pre.states)) =>
    LET q1 == args[1]
        q2 == args[2]
    IN  /\ ~raised
        /\ d.states = SelectSeq(pre.states, LAMBDA q : q # q1)
        /\ Len(d.states) = Len(pre.states) - 1
        /\ d.accepts = SelectSeq(pre.accepts, LAMBDA q : q # q1)
        /\ d.start = (IF pre.start = q1 THEN q2 ELSE pre.start)
        /\ d.current_state = (IF pre.current_state = q1 THEN q2 ELSE pre.current_state)
        /\ \A s \in Range(d.states) : \A c \in Range(pre.alphabet) :
             d.delta[s][c] = (IF pre.delta[s][c] = q1 THEN q2 ELSE pre.delta[s][c])
        /\ d.alphabet = pre.alphabet

\* C12 witness: state_merge(q1, q2) returned where q1 was the start state,
\* an accepting state and the target of a transition of another state, and
\* current was a third state.
C12_Witness ==
  /\ Returned("state_merge") /\ args[1] # args[2] /\ validate(pre)
  /\ pre.start = args[1]
  /\ args[1] \in Range(pre.accepts)
  /\ pre.current_state \notin {args[1], args[2]}
  /\ \E s \in Range(d.states) : \E c \in Range(pre.alphabet) : pre.delta[s][c] = args[1]

\* C13: independence of product automata.  Once P = cross_product(d, D2, f)
\* is built, no input, reset, state_merge, minimize or
\* finite_difference_minimize call on the operand d changes P: its states,
\* accepts, start, current and the value of its transition function on every
\* pair of P.states and every symbol stay what they were.
C13_ProductIndependent ==
  [][(shares = "delta" /\ CallInContract
        /\ op' \in {"input", "reset", "state_merge", "minimize",
                    "finite_difference_minimize"}) => P' = P]_vars

\* C14: structural sharing by inverse is safe.  Once P = inverse(d) is built,
\* no state_merge or minimize call on P changes d, and no state_merge or
\* minimize call on d changes P.
C14_InverseSharingSafe ==
  [][(P # NoDFA /\ shares # "delta" /\ CallInContract) =>
       /\ op' \in {"P.state_merge", "P.minimize"} => d' = d
       /\ op' \in {"state_merge", "minimize"} => P' = P]_vars

\* C15: the language-membership query is read-only.  A call of accepts with
\* a sequence seq, on a valid automaton in whatever current state earlier
\* input and reset calls left, returns whether the state reached from start
\* by reading seq is accepting, and leaves current and every other field as
\* it was.
C15_AcceptsReadOnly ==
  (op = "accepts" /\ validate(pre)) =>
    /\ ~raised
    /\ ret = (StateAfter(pre, pre.start, args[1]) \in Range(pre.accepts))
    /\ d = pre

\* C17: mod-n acceptance.  On modular_zero(n, b), after reset(), reading a
\* sequence of digits of base b leaves current equal to the integer the
\* sequence denotes in base b, modulo n; so status() is true iff that integer
\* is 0 modulo n, and the empty sequence is accepted.
C17_ModularAcceptance ==
  (Returned("input_sequence") /\ pre.current_state = pre.start) =>
    LET n == Len(d.states)
        b == Len(d.alphabet)
        value == IntValue(args[1], b)
    IN  /\ d.states = [i \in 1..n |-> i-1] /\ d.start = 0 /\ d.accepts = <<0>>
        /\ \A q \in 0..(n-1) : \A c \in 0..(b-1) : d.delta[q][str(c)] = (q*b + c) % n
        /\ d.current_state = value % n
        /\ status(d) <=> (value % n = 0)

\* C17 witness: modular_zero(n, 3) with n > 3 has read, from start, MaxLen
\* digits that denote a multiple of n larger than n, and accepts.
C17_Witness ==
  /\ Returned("input_sequence") /\ pre.current_state = pre.start
  /\ Len(d.alphabet) = 3 /\ Len(d.states) > 3
  /\ Len(args[1]) = MaxLen
  /\ IntValue(args[1], 3) > Len(d.states)
  /\ status(d)

\* C16 as stated: reachable_from(q, inclusive) returns the states reachable
\* from q, the result holds q itself iff inclusive is set, and the call
\* changes no field of the automaton.
C16_ReachableFromAsStated ==
  op = "reachable_from" =>
    LET q == args[1]
    IN  /\ Range(ret) \ {q} = Closure(d.delta, {q}) \ {q}
        /\ (q \in Range(ret)) <=> args[2]
        /\ d = pre

\* C16 amended: reachable_from(q, inclusive) returns, each once, the states
\* reachable from q by one or more symbols, and q too when inclusive is set;
\* so the result holds q iff inclusive is set or q lies on a cycle.  The call
\* changes no field of the automaton.
C16_ReachableFrom ==
  op = "reachable_from" =>
    LET q == args[1]
        by_symbols == Closure(d.delta, Succ(d.delta, {q}))
    IN  /\ Range(ret) = by_symbols \cup (IF args[2] THEN {q} ELSE {})
        /\ Cardinality(Range(ret)) = Len(ret)
        /\ (q \in Range(ret)) <=> (args[2] \/ q \in by_symbols)
        /\ d = pre

\* C16 witness: reachable_from(q, inclusive=False) on an automaton with three
\* states returned two states, q itself among them (q lies on a cycle).
C16_Witness ==
  /\ op = "reachable_from" /\ ~args[2]
  /\ Len(d.states) = 3
  /\ Len(ret) = 2
  /\ args[1] \in Range(ret)

\* C18: the two finiteness tests agree on minimized automata.  On an
\* automaton that is minimal with all states reachable, is_finite() is true
\* iff find_fin_inf_parts() yields exactly one infinite-part state, and that
\* state is non-accepting and maps every symbol to itself.
C18_FinitenessTestsAgree ==
  (op = "is_finite" /\ Minimal(d)) =>
    LET infinite_part == find_fin_inf_parts(d).infinite_part
    IN  ret <=> /\ Len(infinite_part) = 1
                /\ infinite_part[1] \notin Range(d.accepts)
                /\ \A c \in Range(d.alphabet) : d.delta[infinite_part[1]][c] = infinite_part[1]

\* C18 witness: is_finite() returned true on a minimal automaton with three
\* states (two in the finite part and the sink).
C18_Witness ==
  /\ op = "is_finite" /\ Minimal(d)
  /\ ret = TRUE
  /\ Len(d.states) = 3
  /\ Len(find_fin_inf_parts(d).finite_part) = 2

\* C19: find_fin_inf_parts() returns a partition of states in which a state
\* is in finite_part iff only finitely many strings lead from start to it.
C19_FinitePartCorrect ==
  (op = "find_fin_inf_parts" /\ validate(d)) =>
    /\ Range(ret.finite_part) \cup Range(ret.infinite_part) = Range(d.states)
    /\ Range(ret.finite_part) \cap Range(ret.infinite_part) = {}
    /\ \A q \in Range(d.states) :
         (q \in Range(ret.finite_part)) <=> ~Infinite(d.delta, {q}, d.start)

\* C20: minimize() completes without error on every automaton that
\* satisfies invariants 1-4, also when no reachable state or every reachable
\* state is accepting: the refinement loop ends and the construction step
\* installs the new fields (the states are one representative of each class).
C20_MinimizeCompletes ==
  (op = "minimize" /\ validate(pre)) =>
    /\ ~raised
    /\ Range(d.states) \subseteq Range(reachable(pre))

\* C21: partition invariant of the refinement loop of minimize().  At every
\* step of the loop, also right after a class is removed and its two halves
\* are appended while the list is iterated, the classes are pairwise
\* disjoint, their union is exactly the set of states reachable from start,
\* every class holds only accepting or only non-accepting states, and a
\* split yields two non-empty classes.
C21_PartitionInvariant ==
  (loop.pc \in {"for", "construct"} /\ validate(pre)) =>
    LET classes == loop.classes
    IN  /\ \A j, k \in 1..Len(classes) :
             j # k => Range(classes[j]) \cap Range(classes[k]) = {}
        /\ \A j \in 1..Len(classes) : Cardinality(Range(classes[j])) = Len(classes[j])
        /\ UNION {Range(classes[j]) : j \in 1..Len(classes)}
             = Closure(pre.delta, {pre.start})
        /\ \A j \in 1..Len(classes) :
             \/ Range(classes[j]) \subseteq Range(pre.accepts)
             \/ Range(classes[j]) \cap Range(pre.accepts) = {}
        /\ loop.split # <<>> => (loop.split[1] # <<>> /\ loop.split[2] # <<>>)

\* C21 witness: a class has just been split in the middle of a pass (the
\* iterator has not reached the end of the changed list), which leaves three
\* classes, none of them empty.
C21_Witness ==
  /\ loop.pc = "for" /\ validate(pre)
  /\ loop.split # <<>>
  /\ loop.i <= Len(loop.classes)
  /\ Len(loop.classes) = 3
  /\ \A j \in 1..3 : loop.classes[j] # <<>>

====
